---- MODULE Spec2Model ----
(***************************************************************************)
(* A model of skills-bundled/personaplex/scripts/connect.py: one session   *)
(* of PersonaPlexClient driven by clawdbot_connect on one asyncio event    *)
(* loop.  Every action is one run of a coroutine between two await points  *)
(* (asyncio is cooperative, so such a run is atomic), or one step of the   *)
(* environment: the transport, the audio devices, the timer, a signal.     *)
(* The lookups of voice_bridge.py's VoiceBridge are modelled beside it.    *)
(***************************************************************************)
EXTENDS Integers, Sequences, FiniteSets, TLC

\* ------------------------------------------------------------------ bounds

\* asyncio.Queue() has no capacity; the model stops the capture callback at
\* this many queued chunks.
MaxQueue == 2
\* Chunk payloads are numbered 1..MaxChunks in capture order and then reused.
MaxChunks == 4
\* The wire observer records the first MaxWire outbound messages.
MaxWire == 3
\* Inbound messages delivered to the client in one session.
MaxInbound == 1
\* stop() invocations made from outside run(): signal handlers and callers.
MaxStopCalls == 2
\* Inbound messages delivered in one session of the downlink specification.
MaxDownlink == 2
\* Lookups made on one VoiceBridge.
MaxCalls == 2

\* ------------------------------------------------------------------ inputs

\* Python's None.
None == "None"

\* A string is a tuple of one-character strings, so that str.upper() is a
\* computation and not the identity.
Letters ==
    <<"a","b","c","d","e","f","g","h","i","j","k","l","m","n","o","p","q","r","s","t","u","v","w","x","y","z">>

Capitals ==
    <<"A","B","C","D","E","F","G","H","I","J","K","L","M","N","O","P","Q","R","S","T","U","V","W","X","Y","Z">>

UpperChar(c) ==
    IF \E i \in DOMAIN Letters : Letters[i] = c
    THEN Capitals[CHOOSE i \in DOMAIN Letters : Letters[i] = c]
    ELSE c

LowerChar(c) ==
    IF \E i \in DOMAIN Capitals : Capitals[i] = c
    THEN Letters[CHOOSE i \in DOMAIN Capitals : Capitals[i] = c]
    ELSE c

\* str.upper() and str.lower()
Upper(s) == [i \in DOMAIN s |-> UpperChar(s[i])]

Lower(s) == [i \in DOMAIN s |-> LowerChar(s[i])]

\* VOICE_PRESETS: NATF0-3, NATM0-3, VARF0-4, VARM0-4.
VOICE_PRESETS ==
    { <<"N","A","T", g, d>> : g \in {"F", "M"}, d \in {"0", "1", "2", "3"} }
    \cup { <<"V","A","R", g, d>> : g \in {"F", "M"}, d \in {"0", "1", "2", "3", "4"} }

\* voice arguments: a preset in lower case and a name that is no preset
VoiceInputs == { <<"n","a","t","f","2">>, <<"B","o","b">> }

\* text_prompt arguments
TextPromptInputs == { "", "You are Alex." }

\* duration_seconds arguments: None (the empty tuple), 0 and a positive limit
\* (one-element tuples).
DurationInputs == { <<>>, <<0>>, <<2>> }

\* Mutant of DurationSet: the limit is tested with `is not None`.
DurationSetNotNone(d) == d # <<>>

\* Python truthiness of duration_seconds (connect.py:281).
DurationSet(d) == d # <<>> /\ d[1] # 0


\* ------------------------------------------------------------------- state

VARIABLES
    voice_arg,         \* the voice argument of clawdbot_connect
    voice,             \* self.voice
    text_prompt,       \* self.text_prompt
    duration_seconds,  \* clawdbot_connect's duration_seconds
    running,           \* self.running
    ws,                \* self._ws: None or the connection object
    conn,              \* the transport: "none", "open", "closing", "closed", "lost"
    pc,                \* where clawdbot_connect / run() is suspended
    up,                \* where the send_audio task is
    down,              \* where the receive_audio task is
    timedOut,          \* asyncio.wait_for has cancelled run()
    handlers,          \* the signal handlers of run() are installed
    stopTask,          \* a stop() task started outside run(): "idle" or "closing"
    stopCalls,         \* stop() invocations made from outside run()
    audio_in_stream,   \* self._audio_in_stream: None, "active" or "closed"
    audio_out_stream,  \* self._audio_out_stream: None, "active" or "closed"
    audio_queue,       \* send_audio's audio_queue
    nextChunk,         \* the payload of the chunk the capture device delivers next
    audio_data,        \* the chunk send_audio is sending, 0 when there is none
    wire,              \* the messages the server has observed, the first MaxWire
    inbound,           \* the number of inbound messages delivered
    received,          \* the messages self._ws.recv() has returned, in order
    log,               \* what receive_audio logged and played, in order
    connectAttempts,   \* calls of websockets.connect
    closeCalls,        \* calls of self._ws.close()
    released,          \* executions of self._ws = None in stop()
    result,            \* clawdbot_connect's result dict
    returned,          \* number of times clawdbot_connect has returned
    calls              \* the calls made on a VoiceBridge: function, argument, return value

cfgVars == <<voice_arg, voice, text_prompt, duration_seconds>>
connVars == <<running, ws, conn, closeCalls, released>>
mainVars == <<pc, timedOut, handlers, connectAttempts, result, returned>>
stopVars == <<stopTask, stopCalls>>
upVars == <<up, audio_in_stream, audio_queue, nextChunk, audio_data>>
downVars == <<down, audio_out_stream, inbound, received, log>>

\* The state of one session of connect.py, and the state of voice_bridge.py.
sessionVars == <<cfgVars, connVars, mainVars, stopVars, upVars, downVars, wire>>
bridgeVars == <<calls>>

vars == <<sessionVars, bridgeVars>>

\* PersonaPlexClient.__init__ and the result dict of clawdbot_connect.
Init ==
    /\ voice_arg \in VoiceInputs
    /\ voice = Upper(voice_arg)
    /\ text_prompt \in TextPromptInputs
    /\ duration_seconds \in DurationInputs
    /\ running = FALSE
    /\ ws = None
    /\ conn = "none"
    /\ pc = "start"
    /\ up = "idle"
    /\ down = "idle"
    /\ timedOut = FALSE
    /\ handlers = FALSE
    /\ stopTask = "idle"
    /\ stopCalls = 0
    /\ audio_in_stream = None
    /\ audio_out_stream = None
    /\ audio_queue = <<>>
    /\ nextChunk = 1
    /\ audio_data = 0
    /\ wire = <<>>
    /\ inbound = 0
    /\ received = <<>>
    /\ log = <<>>
    /\ connectAttempts = 0
    /\ closeCalls = 0
    /\ released = 0
    /\ result = [status |-> "connected", error |-> None]
    /\ returned = 0
    /\ calls = <<>>

\* ------------------------------------------------------- PersonaPlexClient

\* How a pump task has ended: its loop ended on the running flag, its loop was
\* broken by an exception, an exception escaped the coroutine, or the task was
\* cancelled.
Returned == {"exited", "broke"}
Ended == {"exited", "broke", "raised", "cancelled"}

\* asyncio.gather(send_audio(), receive_audio()) is done: both have returned,
\* or one has raised (return_exceptions is False: the first exception is
\* propagated at once and the other task is left running).
GatherDone == up = "raised" \/ down = "raised" \/ (up \in Returned /\ down \in Returned)

\* The wire observer: message m has been written to the transport.
Observe(w, m) == IF Len(w) < MaxWire THEN Append(w, m) ELSE w

\* Mutant of ConfigMessage: the text_prompt key is always sent.
ConfigMessageAlwaysPrompt ==
    [kind |-> "text", voice_prompt |-> voice \o <<".","p","t">>, text_prompt |-> text_prompt]

\* connect(): the configuration message, json.dumps(config).
ConfigMessage ==
    IF text_prompt # ""
    THEN [kind |-> "text", voice_prompt |-> voice \o <<".","p","t">>, text_prompt |-> text_prompt]
    ELSE [kind |-> "text", voice_prompt |-> voice \o <<".","p","t">>]

\* send_audio: a binary frame carrying one chunk.
AudioMessage(chunk) == [kind |-> "binary", data |-> chunk]

\* stop(), up to its await: the guard, running = False and the call of
\* self._ws.close().  TRUE in `awaits` when stop() is suspended in close().
StopAwaits == running /\ ws # None

\* Mutant of StopEnter: stop() closes the connection without clearing the
\* running flag.
StopEnterKeepsFlag ==
    /\ running' = running
    /\ closeCalls' = IF StopAwaits THEN closeCalls + 1 ELSE closeCalls
    /\ conn' = IF StopAwaits /\ conn = "open" THEN "closing" ELSE conn
    /\ UNCHANGED <<ws, released>>

\* stop() up to its await: running = False, then the call of self._ws.close().
StopEnter ==
    /\ running' = FALSE
    /\ closeCalls' = IF StopAwaits THEN closeCalls + 1 ELSE closeCalls
    /\ conn' = IF StopAwaits /\ conn = "open" THEN "closing" ELSE conn
    /\ UNCHANGED <<ws, released>>

\* stop(), after self._ws.close() has returned: self._ws = None.
StopLeave ==
    /\ conn \in {"closed", "lost"}
    /\ ws' = None
    /\ released' = released + 1
    /\ UNCHANGED <<running, conn, closeCalls>>

\* clawdbot_connect returns its result.
Return(status, error) ==
    /\ result' = [status |-> status, error |-> error]
    /\ returned' = returned + 1
    /\ pc' = "done"

\* Mutant of RunStatus: a run() that returned always gives completed.
RunStatusAlwaysCompleted == "completed"

\* The status clawdbot_connect gives a run() that returned (connect.py:281-286).
RunStatus == IF DurationSet(duration_seconds) THEN "completed" ELSE "disconnected"

\* Mutant of BeginConnect: a stop asked for earlier is remembered and the
\* session does not start.
BeginConnectUnlessStopped ==
    /\ pc = "start"
    /\ stopCalls = 0
    /\ pc' = "connecting"
    /\ connectAttempts' = connectAttempts + 1
    /\ UNCHANGED <<bridgeVars, cfgVars, connVars, timedOut, handlers, result, returned,
                   stopVars, upVars, downVars, wire>>

\* clawdbot_connect calls run(), which calls connect(): websockets.connect()
\* is awaited.
BeginConnect ==
    /\ pc = "start"
    /\ pc' = "connecting"
    /\ connectAttempts' = connectAttempts + 1
    /\ UNCHANGED <<bridgeVars, cfgVars, connVars, timedOut, handlers, result, returned,
                   stopVars, upVars, downVars, wire>>

\* Mutant of ConnectOk: the client connects again after stop() released the
\* handle.
ConnectOkAgain ==
    /\ pc = "connecting" \/ (pc = "done" /\ released > 0)
    /\ ws' = "ws"
    /\ conn' = "open"
    /\ running' = TRUE
    /\ pc' = "configuring"
    /\ UNCHANGED <<bridgeVars, cfgVars, closeCalls, released, timedOut, handlers, connectAttempts,
                   result, returned, stopVars, upVars, downVars, wire>>

\* websockets.connect() returns: self._ws is set, running = True, and the
\* configuration message is handed to self._ws.send(), which is awaited.
ConnectOk ==
    /\ pc = "connecting"
    /\ ws' = "ws"
    /\ conn' = "open"
    /\ running' = TRUE
    /\ pc' = "configuring"
    /\ UNCHANGED <<bridgeVars, cfgVars, closeCalls, released, timedOut, handlers, connectAttempts,
                   result, returned, stopVars, upVars, downVars, wire>>

\* Mutant of ConnectFail: the failed attempt is retried instead of reported.
ConnectFailRetried ==
    /\ pc = "connecting"
    /\ pc' = "start"
    /\ UNCHANGED <<bridgeVars, cfgVars, connVars, timedOut, handlers, connectAttempts, result,
                   returned, stopVars, upVars, downVars, wire>>

\* websockets.connect() raises: the exception leaves connect() and run() and is
\* caught by clawdbot_connect's except Exception.
ConnectFail ==
    /\ pc = "connecting"
    /\ Return("error", "connect failed")
    /\ UNCHANGED <<bridgeVars, cfgVars, connVars, timedOut, handlers, connectAttempts,
                   stopVars, upVars, downVars, wire>>

\* Mutant of ConfigSent: connect() returns without having sent the
\* configuration message.
ConfigSentUnsent ==
    /\ pc = "configuring"
    /\ conn = "open"
    /\ handlers' = TRUE
    /\ up' = "start"
    /\ down' = "start"
    /\ pc' = "gathering"
    /\ UNCHANGED <<bridgeVars, cfgVars, connVars, timedOut, connectAttempts, result, returned,
                   stopVars, audio_in_stream, audio_queue, nextChunk, audio_data,
                   audio_out_stream, inbound, received, log, wire>>

\* self._ws.send(config) returns; run() installs the signal handlers and
\* awaits gather(), which creates the two pump tasks.
ConfigSent ==
    /\ pc = "configuring"
    /\ conn = "open"
    /\ wire' = Observe(wire, ConfigMessage)
    /\ handlers' = TRUE
    /\ up' = "start"
    /\ down' = "start"
    /\ pc' = "gathering"
    /\ UNCHANGED <<bridgeVars, cfgVars, connVars, timedOut, connectAttempts, result, returned,
                   stopVars, audio_in_stream, audio_queue, nextChunk, audio_data,
                   audio_out_stream, inbound, received, log>>

\* self._ws.send(config) raises ConnectionClosed (while the connection is
\* closing, send() waits for the end of the closing handshake): connect() is
\* outside run()'s try, so the exception goes straight to clawdbot_connect.
ConfigFail ==
    /\ pc = "configuring"
    /\ conn \in {"closed", "lost"}
    /\ Return("error", "connection closed")
    /\ UNCHANGED <<bridgeVars, cfgVars, connVars, timedOut, handlers, connectAttempts,
                   stopVars, upVars, downVars, wire>>

\* run()'s finally: await self.stop().  Either stop() is suspended in
\* close(), or it returns at once and run() ends.
RunFinally ==
    /\ StopEnter
    /\ IF StopAwaits
       THEN /\ pc' = "run_closing"
            /\ UNCHANGED <<result, returned>>
       ELSE IF timedOut
            THEN Return("timeout", None)
            ELSE Return(RunStatus, None)

\* gather() returns (both pumps returned) or raises (a pump raised; run() logs
\* "Connection error" and swallows it): run() goes to its finally.
GatherEnds ==
    /\ pc = "gathering"
    /\ GatherDone
    /\ RunFinally
    /\ UNCHANGED <<bridgeVars, cfgVars, timedOut, handlers, connectAttempts,
                   stopVars, upVars, downVars, wire>>

\* run() was cancelled by wait_for while in gather(): CancelledError passes
\* except Exception and the finally runs stop().
RunCancelled ==
    /\ pc = "cancelled"
    /\ RunFinally
    /\ UNCHANGED <<bridgeVars, cfgVars, timedOut, handlers, connectAttempts,
                   stopVars, upVars, downVars, wire>>

\* run()'s stop() resumes after close(): self._ws = None, run() ends, and
\* clawdbot_connect sets the status.  After a cancellation wait_for raises
\* TimeoutError and the client.stop() of connect.py:289 is a no-op.
RunCloseDone ==
    /\ pc = "run_closing"
    /\ StopLeave
    /\ IF timedOut THEN Return("timeout", None) ELSE Return(RunStatus, None)
    /\ UNCHANGED <<bridgeVars, cfgVars, timedOut, handlers, connectAttempts,
                   stopVars, upVars, downVars, wire>>

\* ------------------------------------------------- the duration limit

\* asyncio.wait_for(client.run(), timeout=duration_seconds) can expire at any
\* await of run(); it cancels run() once.
TimerArmed == DurationSet(duration_seconds) /\ ~timedOut

\* The task is cancelled while it awaits gather(): gather cancels the pumps
\* that are still running, unless it is already done.
CancelPump(p) == IF ~GatherDone /\ p \notin Ended THEN "cancelled" ELSE p

\* The limit expires inside websockets.connect(): nothing was opened, the
\* status is timeout and client.stop() finds running false.
TimeoutConnecting ==
    /\ TimerArmed
    /\ pc = "connecting"
    /\ timedOut' = TRUE
    /\ Return("timeout", None)
    /\ UNCHANGED <<bridgeVars, cfgVars, connVars, handlers, connectAttempts,
                   stopVars, upVars, downVars, wire>>

\* Mutant of TimeoutConfiguring: the except TimeoutError branch returns
\* without calling client.stop().
TimeoutConfiguringNoStop ==
    /\ TimerArmed
    /\ pc = "configuring"
    /\ timedOut' = TRUE
    /\ \E written \in (IF conn = "open" THEN BOOLEAN ELSE {FALSE}) :
          wire' = IF written THEN Observe(wire, ConfigMessage) ELSE wire
    /\ Return("timeout", None)
    /\ UNCHANGED <<bridgeVars, cfgVars, connVars, handlers, connectAttempts, stopVars, upVars, downVars>>

\* The limit expires inside self._ws.send(config): the message may or may not
\* have been written.  run() has no finally yet; clawdbot_connect sets the
\* status and awaits client.stop().
TimeoutConfiguring ==
    /\ TimerArmed
    /\ pc = "configuring"
    /\ timedOut' = TRUE
    /\ \E written \in (IF conn = "open" THEN BOOLEAN ELSE {FALSE}) :
          wire' = IF written THEN Observe(wire, ConfigMessage) ELSE wire
    /\ StopEnter
    /\ IF StopAwaits
       THEN /\ pc' = "timeout_closing"
            /\ result' = [status |-> "timeout", error |-> None]
            /\ UNCHANGED returned
       ELSE Return("timeout", None)
    /\ UNCHANGED <<bridgeVars, cfgVars, handlers, connectAttempts, stopVars, upVars, downVars>>

\* The limit expires while run() awaits gather(): the pumps get
\* CancelledError at their await (their finally closes the audio streams); a
\* chunk being sent may or may not have been written.
TimeoutGathering ==
    /\ TimerArmed
    /\ pc = "gathering"
    /\ timedOut' = TRUE
    /\ pc' = "cancelled"
    /\ up' = CancelPump(up)
    /\ down' = CancelPump(down)
    /\ audio_in_stream' =
          IF CancelPump(up) # up /\ audio_in_stream = "active" THEN "closed" ELSE audio_in_stream
    /\ audio_out_stream' =
          IF CancelPump(down) # down /\ audio_out_stream = "active" THEN "closed" ELSE audio_out_stream
    /\ audio_data' = IF CancelPump(up) # up THEN 0 ELSE audio_data
    /\ \E written \in (IF CancelPump(up) # up /\ up = "sending" /\ conn = "open"
                       THEN BOOLEAN ELSE {FALSE}) :
          wire' = IF written THEN Observe(wire, AudioMessage(audio_data)) ELSE wire
    /\ UNCHANGED <<bridgeVars, cfgVars, connVars, handlers, connectAttempts, result, returned,
                   stopVars, audio_queue, nextChunk, inbound, received, log>>

\* The limit expires while run()'s finally awaits close() inside stop():
\* CancelledError leaves stop() before self._ws = None; clawdbot_connect sets
\* the status and its client.stop() finds running false.
TimeoutClosing ==
    /\ TimerArmed
    /\ pc = "run_closing"
    /\ timedOut' = TRUE
    /\ Return("timeout", None)
    /\ UNCHANGED <<bridgeVars, cfgVars, connVars, handlers, connectAttempts,
                   stopVars, upVars, downVars, wire>>

\* The client.stop() of connect.py:289 resumes after close().
TimeoutCloseDone ==
    /\ pc = "timeout_closing"
    /\ StopLeave
    /\ Return("timeout", None)
    /\ UNCHANGED <<bridgeVars, cfgVars, timedOut, handlers, connectAttempts,
                   stopVars, upVars, downVars, wire>>

\* ------------------------------------------------- stop() from outside

\* A task that runs stop(): it either returns at once or leaves the task
\* suspended in close().
StopTaskRuns ==
    /\ stopCalls < MaxStopCalls
    /\ stopCalls' = stopCalls + 1
    /\ StopEnter
    /\ stopTask' = IF StopAwaits THEN "closing" ELSE stopTask
    /\ UNCHANGED <<bridgeVars, cfgVars, mainVars, upVars, downVars, wire>>

\* SIGINT or SIGTERM: the handler run() installed creates a task of stop().
SignalStop ==
    /\ handlers
    /\ StopTaskRuns

\* The owner of the client calls stop() itself.
CallerStop ==
    /\ StopTaskRuns

\* The stop() task resumes after close(): self._ws = None.
StopTaskCloseDone ==
    /\ stopTask = "closing"
    /\ StopLeave
    /\ stopTask' = "idle"
    /\ UNCHANGED <<bridgeVars, cfgVars, mainVars, stopCalls, upVars, downVars, wire>>

\* ------------------------------------------------- the transport

\* The peer or the network closes the connection abruptly.
TransportLost ==
    /\ conn = "open"
    /\ conn' = "lost"
    /\ UNCHANGED <<bridgeVars, cfgVars, running, ws, closeCalls, released, mainVars,
                   stopVars, upVars, downVars, wire>>

\* The closing handshake started by close() completes.
CloseCompletes ==
    /\ conn = "closing"
    /\ conn' = "closed"
    /\ UNCHANGED <<bridgeVars, cfgVars, running, ws, closeCalls, released, mainVars,
                   stopVars, upVars, downVars, wire>>

\* ------------------------------------------------- send_audio

\* `while self.running:` of send_audio, then asyncio.wait_for(audio_queue.get()).
UpLoop == IF running THEN "waiting" ELSE "exited"

\* send_audio's finally, when the task leaves with state p.
UpStream(p) == IF p \in Ended /\ audio_in_stream = "active" THEN "closed" ELSE audio_in_stream

\* The task starts: sd.RawInputStream(...).start() succeeds and the loop is
\* entered, or left at once when running is already false.
SendAudioStart ==
    /\ up = "start"
    /\ up' = UpLoop
    /\ audio_in_stream' = IF UpLoop \in Ended THEN "closed" ELSE "active"
    /\ UNCHANGED <<bridgeVars, cfgVars, connVars, mainVars, stopVars, audio_queue, nextChunk,
                   audio_data, downVars, wire>>

\* sd.RawInputStream(...) raises (self._audio_in_stream stays None) or its
\* start() raises (the finally closes the stream): the exception leaves
\* send_audio.
SendAudioDeviceFail ==
    /\ up = "start"
    /\ up' = "raised"
    /\ \E constructed \in BOOLEAN :
          audio_in_stream' = IF constructed THEN "closed" ELSE audio_in_stream
    /\ UNCHANGED <<bridgeVars, cfgVars, connVars, mainVars, stopVars, audio_queue,
                   nextChunk, audio_data, downVars, wire>>

\* Mutant of AudioCallback: the push waits until the consumer is waiting in
\* get().
AudioCallbackBlocking ==
    /\ audio_in_stream = "active"
    /\ Len(audio_queue) < MaxQueue
    /\ up = "waiting"
    /\ audio_queue' = Append(audio_queue, nextChunk)
    /\ nextChunk' = (nextChunk % MaxChunks) + 1
    /\ UNCHANGED <<bridgeVars, cfgVars, connVars, mainVars, stopVars, up, audio_in_stream,
                   audio_data, downVars, wire>>

\* Mutant of AudioCallback: the new chunk overwrites the newest queued chunk.
AudioCallbackOverwrites ==
    /\ audio_in_stream = "active"
    /\ Len(audio_queue) < MaxQueue
    /\ audio_queue' = IF audio_queue = <<>> THEN <<nextChunk>>
                      ELSE [audio_queue EXCEPT ![Len(audio_queue)] = nextChunk]
    /\ nextChunk' = (nextChunk % MaxChunks) + 1
    /\ UNCHANGED <<bridgeVars, cfgVars, connVars, mainVars, stopVars, up, audio_in_stream,
                   audio_data, downVars, wire>>

\* audio_callback: the capture device delivers a chunk and put_nowait appends
\* it to audio_queue.
AudioCallback ==
    /\ audio_in_stream = "active"
    /\ Len(audio_queue) < MaxQueue
    /\ audio_queue' = Append(audio_queue, nextChunk)
    /\ nextChunk' = (nextChunk % MaxChunks) + 1
    /\ UNCHANGED <<bridgeVars, cfgVars, connVars, mainVars, stopVars, up, audio_in_stream,
                   audio_data, downVars, wire>>

\* Mutant of SendAudioGet: the pump takes the newest queued chunk, not the
\* oldest.
SendAudioGetNewest ==
    /\ up = "waiting"
    /\ audio_queue # <<>>
    /\ audio_queue' = SubSeq(audio_queue, 1, Len(audio_queue) - 1)
    /\ IF ws # None /\ running
       THEN /\ audio_data' = audio_queue[Len(audio_queue)]
            /\ up' = "sending"
            /\ UNCHANGED audio_in_stream
       ELSE /\ audio_data' = 0
            /\ up' = UpLoop
            /\ audio_in_stream' = UpStream(UpLoop)
    /\ UNCHANGED <<bridgeVars, cfgVars, connVars, mainVars, stopVars, nextChunk, downVars, wire>>

\* Mutant of SendAudioGet: after dropping a chunk the pump waits for the next
\* one without testing the running flag.
SendAudioGetNoRecheck ==
    /\ up = "waiting"
    /\ audio_queue # <<>>
    /\ audio_queue' = Tail(audio_queue)
    /\ IF ws # None /\ running
       THEN /\ audio_data' = Head(audio_queue)
            /\ up' = "sending"
       ELSE /\ audio_data' = 0
            /\ up' = "waiting"
    /\ UNCHANGED <<bridgeVars, cfgVars, connVars, mainVars, stopVars, nextChunk,
                   audio_in_stream, downVars, wire>>

\* Mutant of SendAudioGet: the chunk is sent whenever the handle is set,
\* whatever the running flag.
SendAudioGetUnchecked ==
    /\ up = "waiting"
    /\ audio_queue # <<>>
    /\ audio_queue' = Tail(audio_queue)
    /\ IF ws # None
       THEN /\ audio_data' = Head(audio_queue)
            /\ up' = "sending"
            /\ UNCHANGED audio_in_stream
       ELSE /\ audio_data' = 0
            /\ up' = UpLoop
            /\ audio_in_stream' = UpStream(UpLoop)
    /\ UNCHANGED <<bridgeVars, cfgVars, connVars, mainVars, stopVars, nextChunk, downVars, wire>>

\* audio_queue.get() returns a chunk: it is handed to self._ws.send() if
\* self._ws and self.running, and dropped otherwise.
SendAudioGet ==
    /\ up = "waiting"
    /\ audio_queue # <<>>
    /\ audio_queue' = Tail(audio_queue)
    /\ IF ws # None /\ running
       THEN /\ audio_data' = Head(audio_queue)
            /\ up' = "sending"
            /\ UNCHANGED audio_in_stream
       ELSE /\ audio_data' = 0
            /\ up' = UpLoop
            /\ audio_in_stream' = UpStream(UpLoop)
    /\ UNCHANGED <<bridgeVars, cfgVars, connVars, mainVars, stopVars, nextChunk, downVars, wire>>

\* self._ws.send(audio_data) returns.
SendAudioSent ==
    /\ up = "sending"
    /\ conn = "open"
    /\ wire' = Observe(wire, AudioMessage(audio_data))
    /\ audio_data' = 0
    /\ up' = UpLoop
    /\ audio_in_stream' = UpStream(UpLoop)
    /\ UNCHANGED <<bridgeVars, cfgVars, connVars, mainVars, stopVars, audio_queue, nextChunk, downVars>>

\* Mutant of SendAudioFailed: the exception is swallowed and the loop goes on.
SendAudioFailedContinues ==
    /\ up = "sending"
    /\ conn \in {"closed", "lost"}
    /\ audio_data' = 0
    /\ up' = UpLoop
    /\ audio_in_stream' = UpStream(UpLoop)
    /\ UNCHANGED <<bridgeVars, cfgVars, connVars, mainVars, stopVars, audio_queue, nextChunk,
                   downVars, wire>>

\* self._ws.send(audio_data) raises ConnectionClosed: except Exception logs
\* and breaks.
SendAudioFailed ==
    /\ up = "sending"
    /\ conn \in {"closed", "lost"}
    /\ audio_data' = 0
    /\ up' = "broke"
    /\ audio_in_stream' = UpStream("broke")
    /\ UNCHANGED <<bridgeVars, cfgVars, connVars, mainVars, stopVars, audio_queue, nextChunk,
                   downVars, wire>>

\* asyncio.TimeoutError after one second without a chunk: continue, and the
\* loop ends when running is false.  (With running true the task is back where
\* it was.)
SendAudioTimeout ==
    /\ up = "waiting"
    /\ audio_queue = <<>>
    /\ ~running
    /\ up' = "exited"
    /\ audio_in_stream' = UpStream("exited")
    /\ UNCHANGED <<bridgeVars, cfgVars, connVars, mainVars, stopVars, audio_queue, nextChunk,
                   audio_data, downVars, wire>>

\* ------------------------------------------------- receive_audio

\* The dictionary keys receive_audio looks for, as character tuples.
TextKey == <<"t","e","x","t">>
ErrorKey == <<"e","r","r","o","r">>

\* Inbound binary messages (PCM bytes of any length).
InboundFrames == { <<1, 2>>, <<3>> }

\* Inbound text messages.
InboundTexts ==
    { "{\"text\": \"hello\"}", "{\"error\": \"oops\"}",
      "{\"text\": \"hi\", \"error\": \"oops\"}", "{\"status\": \"ok\"}",
      "5", "null", "\"context\"", "\"ok\"", "[\"text\"]", "[]", "not json" }

InboundMessages ==
    { [kind |-> "binary", data |-> b] : b \in InboundFrames }
    \cup { [kind |-> "text", data |-> t] : t \in InboundTexts }

\* json.loads: the decoded value with its Python type, or JSONDecodeError.
JsonLoads(raw) ==
    CASE raw = "{\"text\": \"hello\"}" -> [t |-> "dict", v |-> (TextKey :> "hello")]
      [] raw = "{\"error\": \"oops\"}" -> [t |-> "dict", v |-> (ErrorKey :> "oops")]
      [] raw = "{\"text\": \"hi\", \"error\": \"oops\"}" ->
            [t |-> "dict", v |-> (TextKey :> "hi") @@ (ErrorKey :> "oops")]
      [] raw = "{\"status\": \"ok\"}" ->
            [t |-> "dict", v |-> (<<"s","t","a","t","u","s">> :> "ok")]
      [] raw = "5" -> [t |-> "int", v |-> 5]
      [] raw = "null" -> [t |-> "NoneType", v |-> None]
      [] raw = "\"context\"" -> [t |-> "str", v |-> <<"c","o","n","t","e","x","t">>]
      [] raw = "\"ok\"" -> [t |-> "str", v |-> <<"o","k">>]
      [] raw = "[\"text\"]" -> [t |-> "list", v |-> <<TextKey>>]
      [] raw = "[]" -> [t |-> "list", v |-> <<>>]
      [] OTHER -> [t |-> "JSONDecodeError", v |-> raw]

\* Python's `key in data`: a key of a dict, an element of a list, a substring of
\* a str; any other type raises TypeError.
SupportsIn(data) == data.t \in {"dict", "list", "str"}

In(key, data) ==
    CASE data.t = "dict" -> key \in DOMAIN data.v
      [] data.t = "list" -> \E i \in 1..Len(data.v) : data.v[i] = key
      [] data.t = "str" ->
            \E i \in 1..(Len(data.v) - Len(key) + 1) :
                SubSeq(data.v, i, i + Len(key) - 1) = key
      [] OTHER -> FALSE

\* One logger call or one write to the playback stream.
Entry(level, prefix, arg) == [level |-> level, prefix |-> prefix, arg |-> arg]

\* An exception caught by receive_audio's except Exception: logged when
\* running, then break.
Break(exception) ==
    [next |-> "break",
     entries |-> IF running THEN <<Entry("error", "Error receiving audio: ", exception)>>
                 ELSE <<>>]

Continue(entries) == [next |-> "continue", entries |-> entries]

\* Mutant of HandleText: a server-reported error ends the pump.
HandleTextErrorFatal(raw) ==
    LET data == JsonLoads(raw) IN
    IF data.t = "JSONDecodeError" THEN Continue(<<Entry("info", "[Agent]: ", raw)>>)
    ELSE IF ~SupportsIn(data) THEN Break("TypeError")
    ELSE IF In(TextKey, data)
         THEN IF data.t = "dict"
              THEN Continue(<<Entry("info", "[Agent]: ", data.v[TextKey])>>)
              ELSE Break("TypeError")
    ELSE IF In(ErrorKey, data)
         THEN IF data.t = "dict"
              THEN [next |-> "break",
                    entries |-> <<Entry("error", "Server error: ", data.v[ErrorKey])>>]
              ELSE Break("TypeError")
    ELSE Continue(<<Entry("debug", "Server message: ", data.v)>>)

\* Mutant of HandleText: the error field is looked for before the text field.
HandleTextErrorFirst(raw) ==
    LET data == JsonLoads(raw) IN
    IF data.t = "JSONDecodeError" THEN Continue(<<Entry("info", "[Agent]: ", raw)>>)
    ELSE IF ~SupportsIn(data) THEN Break("TypeError")
    ELSE IF In(ErrorKey, data)
         THEN IF data.t = "dict"
              THEN Continue(<<Entry("error", "Server error: ", data.v[ErrorKey])>>)
              ELSE Break("TypeError")
    ELSE IF In(TextKey, data)
         THEN IF data.t = "dict"
              THEN Continue(<<Entry("info", "[Agent]: ", data.v[TextKey])>>)
              ELSE Break("TypeError")
    ELSE Continue(<<Entry("debug", "Server message: ", data.v)>>)

\* The body of receive_audio's loop for a text message (connect.py:191-200).
HandleText(raw) ==
    LET data == JsonLoads(raw) IN
    IF data.t = "JSONDecodeError" THEN Continue(<<Entry("info", "[Agent]: ", raw)>>)
    ELSE IF ~SupportsIn(data) THEN Break("TypeError")
    ELSE IF In(TextKey, data)
         THEN IF data.t = "dict"
              THEN Continue(<<Entry("info", "[Agent]: ", data.v[TextKey])>>)
              ELSE Break("TypeError")
    ELSE IF In(ErrorKey, data)
         THEN IF data.t = "dict"
              THEN Continue(<<Entry("error", "Server error: ", data.v[ErrorKey])>>)
              ELSE Break("TypeError")
    ELSE Continue(<<Entry("debug", "Server message: ", data.v)>>)

\* Mutant of HandleBinary: the frame is written to the playback stream twice.
HandleBinaryTwice(bytes, written) ==
    IF written THEN Continue(<<Entry("play", "", bytes), Entry("play", "", bytes)>>)
    ELSE Break("PortAudioError")

\* The body of receive_audio's loop for a binary message: one write to the
\* playback stream, which may raise.
HandleBinary(bytes, written) ==
    IF written THEN Continue(<<Entry("play", "", bytes)>>) ELSE Break("PortAudioError")

\* `while self.running:` of receive_audio, then self._ws.recv(): with self._ws
\* None the attribute access raises and except Exception breaks.
DownLoop == IF running THEN (IF ws # None THEN "receiving" ELSE "broke") ELSE "exited"

\* receive_audio's finally, when the task leaves with state p.
DownStream(p) ==
    IF p \in Ended /\ audio_out_stream = "active" THEN "closed" ELSE audio_out_stream

\* The task starts: sd.RawOutputStream(...).start() succeeds and the loop is
\* entered, or left at once when running is already false.
ReceiveAudioStart ==
    /\ down = "start"
    /\ down' = DownLoop
    /\ audio_out_stream' = IF DownLoop \in Ended THEN "closed" ELSE "active"
    /\ UNCHANGED <<bridgeVars, cfgVars, connVars, mainVars, stopVars, upVars, inbound, received, log, wire>>

\* sd.RawOutputStream(...) raises (self._audio_out_stream stays None) or its
\* start() raises (the finally closes the stream): the exception leaves
\* receive_audio.
ReceiveAudioDeviceFail ==
    /\ down = "start"
    /\ down' = "raised"
    /\ \E constructed \in BOOLEAN :
          audio_out_stream' = IF constructed THEN "closed" ELSE audio_out_stream
    /\ UNCHANGED <<bridgeVars, cfgVars, connVars, mainVars, stopVars, upVars, inbound, received, log, wire>>

\* self._ws.recv() returns message m and the loop body handles it; `written`
\* tells whether a write to the playback stream succeeds.  Messages of the
\* peer still arrive while the closing handshake started by close() is under
\* way.
ReceiveMessage(m, written) ==
    /\ down = "receiving"
    /\ conn \in {"open", "closing"}
    /\ inbound' = inbound + 1
    /\ received' = Append(received, m)
    /\ LET h == IF m.kind = "binary" THEN HandleBinary(m.data, written)
                ELSE HandleText(m.data)
           p == IF h.next = "break" THEN "broke" ELSE DownLoop
       IN /\ log' = log \o h.entries
          /\ down' = p
          /\ audio_out_stream' = DownStream(p)
    /\ UNCHANGED <<bridgeVars, cfgVars, connVars, mainVars, stopVars, upVars, wire>>

\* Mutant of ReceiveFailed: the pump clears the running flag itself.
ReceiveFailedClearsFlag ==
    /\ down = "receiving"
    /\ conn \in {"closed", "lost"}
    /\ log' = log \o Break("ConnectionClosed").entries
    /\ down' = "broke"
    /\ audio_out_stream' = DownStream("broke")
    /\ running' = FALSE
    /\ UNCHANGED <<bridgeVars, cfgVars, ws, conn, closeCalls, released, mainVars, stopVars, upVars,
                   inbound, received, wire>>

\* self._ws.recv() raises ConnectionClosed: except Exception logs and breaks.
ReceiveFailed ==
    /\ down = "receiving"
    /\ conn \in {"closed", "lost"}
    /\ log' = log \o Break("ConnectionClosed").entries
    /\ down' = "broke"
    /\ audio_out_stream' = DownStream("broke")
    /\ UNCHANGED <<bridgeVars, cfgVars, connVars, mainVars, stopVars, upVars, inbound, received, wire>>

\* asyncio.TimeoutError after one second without a message: continue, and the
\* loop ends when running is false.
ReceiveTimeout ==
    /\ down = "receiving"
    /\ ~running
    /\ down' = "exited"
    /\ audio_out_stream' = DownStream("exited")
    /\ UNCHANGED <<bridgeVars, cfgVars, connVars, mainVars, stopVars, upVars, inbound, received, log, wire>>

\* The server sends one of the messages M, at most n in a session.
ReceiveUpTo(M, n) ==
    /\ inbound < n
    /\ \E m \in M, written \in BOOLEAN : ReceiveMessage(m, written)

Receive(M) == ReceiveUpTo(M, MaxInbound)

\* The inbound messages of the session specification: an audio frame, an agent
\* utterance and a JSON document that is no object.
SessionMessages ==
    { [kind |-> "binary", data |-> <<3>>],
      [kind |-> "text", data |-> "{\"text\": \"hello\"}"],
      [kind |-> "text", data |-> "5"] }

\* ------------------------------------------------- voice_bridge.py

\* A dict is the sequence of its items, in insertion order; an optional value
\* is the empty tuple (None) or a one-element tuple.
HasKey(d, key) == \E i \in DOMAIN d : d[i][1] = key

DictGet(d, key) ==
    IF HasKey(d, key) THEN <<d[CHOOSE i \in DOMAIN d : d[i][1] = key][2]>> ELSE <<>>

\* VoiceBridge.ELEVENLABS_TO_PERSONAPLEX
ELEVENLABS_TO_PERSONAPLEX ==
    << <<<<"r","a","c","h","e","l">>, <<"N","A","T","F","2">>>>,
       <<<<"a","d","a","m">>, <<"N","A","T","M","1">>>>,
       <<<<"g","e","o","r","g","e">>, <<"N","A","T","M","0">>>>,
       <<<<"a","l","i","c","e">>, <<"N","A","T","F","1">>>>,
       <<<<"b","r","i","a","n">>, <<"N","A","T","M","2">>>>,
       <<<<"c","h","a","r","l","i","e">>, <<"N","A","T","M","3">>>>,
       <<<<"d","a","n","i","e","l">>, <<"V","A","R","M","0">>>>,
       <<<<"b","e","l","l","a">>, <<"N","A","T","F","3">>>>,
       <<<<"e","l","l","i">>, <<"N","A","T","F","0">>>>,
       <<<<"j","o","s","h">>, <<"V","A","R","M","1">>>>,
       <<<<"a","r","n","o","l","d">>, <<"V","A","R","M","2">>>>,
       <<<<"s","a","m">>, <<"V","A","R","M","3">>>>,
       <<<<"d","o","m","i">>, <<"V","A","R","F","0">>>>,
       <<<<"g","r","a","c","e">>, <<"V","A","R","F","1">>>>,
       <<<<"g","l","i","n","d","a">>, <<"V","A","R","F","3">>>>,
       <<<<"s","e","r","e","n","a">>, <<"V","A","R","F","2">>>>,
       <<<<"e","m","i","l","y">>, <<"V","A","R","F","4">>>>,
       <<<<"e","t","h","a","n">>, <<"V","A","R","M","4">>>> >>

\* The keys of VoiceBridge.PRESET_INFO
PRESET_INFO ==
    { <<"N","A","T","F","0">>,
      <<"N","A","T","F","1">>,
      <<"N","A","T","F","2">>,
      <<"N","A","T","F","3">>,
      <<"N","A","T","M","0">>,
      <<"N","A","T","M","1">>,
      <<"N","A","T","M","2">>,
      <<"N","A","T","M","3">>,
      <<"V","A","R","F","0">>,
      <<"V","A","R","F","1">>,
      <<"V","A","R","F","2">>,
      <<"V","A","R","F","3">>,
      <<"V","A","R","F","4">>,
      <<"V","A","R","M","0">>,
      <<"V","A","R","M","1">>,
      <<"V","A","R","M","2">>,
      <<"V","A","R","M","3">>,
      <<"V","A","R","M","4">> }

\* VoiceBridge.__init__: the reverse mapping, in which the first mapping of a
\* preset wins.
RECURSIVE BuildReverse(_, _)
BuildReverse(items, acc) ==
    IF items = <<>> THEN acc
    ELSE LET el_name == Head(items)[1]
             pp_name == Head(items)[2]
         IN BuildReverse(Tail(items),
                         IF HasKey(acc, pp_name) THEN acc
                         ELSE Append(acc, <<pp_name, el_name>>))

\* self._pp_to_el
pp_to_el == BuildReverse(ELEVENLABS_TO_PERSONAPLEX, <<>>)

get_personaplex_voice(name) ==
    LET upper == Upper(name) IN
    IF upper \in PRESET_INFO THEN <<upper>>
    ELSE DictGet(ELEVENLABS_TO_PERSONAPLEX, Lower(name))

\* Mutant of get_elevenlabs_voice: the reverse mapping is looked up with the
\* lower-cased name.
get_elevenlabs_voice_lower(name) ==
    LET lower == Lower(name) IN
    IF HasKey(ELEVENLABS_TO_PERSONAPLEX, lower) THEN <<lower>>
    ELSE DictGet(pp_to_el, lower)

get_elevenlabs_voice(name) ==
    LET lower == Lower(name) IN
    IF HasKey(ELEVENLABS_TO_PERSONAPLEX, lower) THEN <<lower>>
    ELSE DictGet(pp_to_el, Upper(name))

\* The ElevenLabs names of the table.
ElevenLabsNames == { ELEVENLABS_TO_PERSONAPLEX[i][1] : i \in DOMAIN ELEVENLABS_TO_PERSONAPLEX }

\* Names looked up: every ElevenLabs name, every preset, a capitalised name, a
\* preset in lower case, an unknown name and the empty string.
BridgeNames ==
    ElevenLabsNames \cup PRESET_INFO
    \cup { <<"R","a","c","h","e","l">>, <<"n","a","t","f","2">>, <<"b","o","b">>, <<>> }

\* A caller passes one of BridgeNames or a name an earlier call returned.
CallArgs == BridgeNames \cup { calls[i].ret[1] : i \in { j \in DOMAIN calls : calls[j].ret # <<>> } }

Call(fn, arg, ret) == [fn |-> fn, arg |-> arg, ret |-> ret]

GetPersonaplexVoice ==
    /\ Len(calls) < MaxCalls
    /\ \E name \in CallArgs :
          calls' = Append(calls, Call("get_personaplex_voice", name, get_personaplex_voice(name)))
    /\ UNCHANGED sessionVars

GetElevenlabsVoice ==
    /\ Len(calls) < MaxCalls
    /\ \E name \in CallArgs :
          calls' = Append(calls, Call("get_elevenlabs_voice", name, get_elevenlabs_voice(name)))
    /\ UNCHANGED sessionVars

\* ------------------------------------------------- specification

Next ==
    \/ BeginConnect
    \/ ConnectOk
    \/ ConnectFail
    \/ ConfigSent
    \/ ConfigFail
    \/ GatherEnds
    \/ RunCancelled
    \/ RunCloseDone
    \/ TimeoutConnecting
    \/ TimeoutConfiguring
    \/ TimeoutGathering
    \/ TimeoutClosing
    \/ TimeoutCloseDone
    \/ SignalStop
    \/ CallerStop
    \/ StopTaskCloseDone
    \/ TransportLost
    \/ CloseCompletes
    \/ SendAudioStart
    \/ SendAudioDeviceFail
    \/ AudioCallback
    \/ SendAudioGet
    \/ SendAudioSent
    \/ SendAudioFailed
    \/ SendAudioTimeout
    \/ ReceiveAudioStart
    \/ ReceiveAudioDeviceFail
    \/ Receive(SessionMessages)
    \/ ReceiveFailed
    \/ ReceiveTimeout

Spec == Init /\ [][Next]_vars

\* What the event loop, the transport and the devices guarantee: a task that
\* can run is run, an awaited call returns or raises, the timer of wait_for
\* fires, and an active capture stream keeps calling audio_callback.  A lost
\* transport, a signal, a caller's stop() and an inbound message may never
\* happen.
Fairness ==
    /\ WF_vars(BeginConnect)
    /\ WF_vars(ConnectOk \/ ConnectFail)
    /\ WF_vars(ConfigSent \/ ConfigFail)
    /\ WF_vars(GatherEnds)
    /\ WF_vars(RunCancelled)
    /\ WF_vars(RunCloseDone)
    /\ WF_vars(TimeoutConnecting \/ TimeoutConfiguring \/ TimeoutGathering \/ TimeoutClosing)
    /\ WF_vars(TimeoutCloseDone)
    /\ WF_vars(StopTaskCloseDone)
    /\ WF_vars(CloseCompletes)
    /\ WF_vars(SendAudioStart \/ SendAudioDeviceFail)
    /\ WF_vars(AudioCallback)
    /\ WF_vars(SendAudioGet)
    /\ WF_vars(SendAudioSent \/ SendAudioFailed)
    /\ WF_vars(SendAudioTimeout)
    /\ WF_vars(ReceiveAudioStart \/ ReceiveAudioDeviceFail)
    /\ WF_vars(ReceiveFailed)
    /\ WF_vars(ReceiveTimeout)

\* The progress properties do not depend on the configuration message: they
\* are checked for one voice and one text prompt, without a duration limit and
\* with one (a limit of 0 is no limit, like None).
LiveInit ==
    /\ Init
    /\ voice = Upper(<<"n","a","t","f","2">>)
    /\ text_prompt = ""
    /\ duration_seconds \in {<<>>, <<2>>}

FairSpec == LiveInit /\ [][Next]_vars /\ Fairness

\* The downlink specification: a session without a duration limit (the timer
\* of wait_for is never armed), stopped if at all by a signal, whose capture
\* device stays silent (the uplink pump only waits on its empty queue), and to
\* which the server sends any of InboundMessages, MaxDownlink of them.
DownlinkInit ==
    /\ LiveInit
    /\ duration_seconds = <<>>

DownlinkNext ==
    \/ BeginConnect
    \/ ConnectOk
    \/ ConnectFail
    \/ ConfigSent
    \/ ConfigFail
    \/ GatherEnds
    \/ RunCloseDone
    \/ SignalStop
    \/ StopTaskCloseDone
    \/ TransportLost
    \/ CloseCompletes
    \/ SendAudioStart
    \/ SendAudioDeviceFail
    \/ SendAudioTimeout
    \/ ReceiveAudioStart
    \/ ReceiveAudioDeviceFail
    \/ ReceiveUpTo(InboundMessages, MaxDownlink)
    \/ ReceiveFailed
    \/ ReceiveTimeout

DownlinkSpec == DownlinkInit /\ [][DownlinkNext]_vars

\* The voice bridge specification: lookups on one VoiceBridge object, with no
\* session running.
BridgeInit == DownlinkInit

BridgeNext ==
    \/ GetPersonaplexVoice
    \/ GetElevenlabsVoice

BridgeSpec == BridgeInit /\ [][BridgeNext]_vars

\* ------------------------------------------------- session predicates

\* run() is in gather() and the running flag is set.
Streaming == pc = "gathering" /\ running

\* The spec's Closed: the running flag is false and stop() has released the
\* connection.
Closed == ~running /\ ws = None /\ conn \in {"closed", "lost"}

\* No pump task is alive.
PumpsExited == up \in Ended /\ down \in Ended
NoPumpAlive == up \in Ended \cup {"idle"} /\ down \in Ended \cup {"idle"}

\* A stop was asked for from outside run(), or the duration limit expired.
ExternalStop == stopCalls > 0 \/ timedOut

\* Nothing but the duration limit ends the session.
Healthy ==
    /\ stopCalls = 0
    /\ conn # "lost"
    /\ up \notin {"broke", "raised"}
    /\ down \notin {"broke", "raised"}

\* The configuration messages among the observed outbound messages.
ConfigsOnWire == { i \in DOMAIN wire : wire[i].kind = "text" }

\* ------------------------------------------------- claims

\* C1: at most one configuration message is ever sent; it is the first message
\* on the wire, so no audio frame precedes it; and once connect() has returned
\* (the pumps exist) exactly one has been sent, for every voice and prompt.
C1_ConfigFirst ==
    /\ Cardinality(ConfigsOnWire) <= 1
    /\ wire # <<>> => wire[1] = ConfigMessage
    /\ (handlers \/ up # "idle" \/ down # "idle") => ConfigsOnWire = {1}

\* C1 witness: an audio frame has followed the configuration message of a
\* session with a text prompt.
C1_Witness ==
    /\ Len(wire) >= 2
    /\ wire[1] = ConfigMessage
    /\ wire[2].kind = "binary"
    /\ text_prompt # ""

\* C2 (as claimed): once the session is over and no stop() is in progress, a
\* session that opened the connection has closed it at most once, has made
\* exactly one transition to Closed and has produced exactly one result.
C2_ExactlyOneClosed ==
    (pc = "done" /\ stopTask = "idle" /\ conn # "none")
        => (closeCalls <= 1 /\ released = 1 /\ returned = 1)

\* C3 (as claimed): when the result is produced, a connection that was opened
\* is closed (by close() or by the peer), never open or still closing.
C3_ClosedAtResult ==
    (pc = "done" /\ conn # "none") => conn \in {"closed", "lost"}

\* C4: a transport lost while the session is streaming leads to both pumps
\* exited and the session Closed, unless a stop is asked for from outside or
\* the duration limit expires first.
C4_AbruptCloseEnds ==
    (Streaming /\ conn = "lost") ~> ((Closed /\ PumpsExited) \/ ExternalStop)

\* C4 witness: the transport was lost in a streaming session, nobody asked for
\* a stop, and the session is Closed with both pumps exited.
C4_Witness ==
    /\ pc = "done"
    /\ handlers
    /\ conn = "lost"
    /\ ~ExternalStop
    /\ Closed
    /\ up = "broke"
    /\ down = "broke"

\* C5 (as claimed): a failure that ends one pump while the other is still
\* running, before any stop was asked for, leads to stop() being performed.
C5_FailureStops ==
    (pc = "gathering" /\ ~ExternalStop
                      /\ ( (up \in {"broke", "raised"} /\ down \notin Ended)
                           \/ (down \in {"broke", "raised"} /\ up \notin Ended) ))
        ~> ~running

\* C6 (as claimed): a session that ended on a lost transport, with no stop
\* asked for, no timeout and no device failure, has status disconnected or
\* error.
C6_TransportErrorStatus ==
    (/\ pc = "done"
     /\ handlers
     /\ conn = "lost"
     /\ ~ExternalStop
     /\ up # "raised"
     /\ down # "raised")
        => result.status \in {"disconnected", "error"}

\* C7: a session cancelled by the duration limit returns status timeout, and
\* when nothing else ended it the full stop() was performed: running is false,
\* the connection is closed and released, and no pump is alive.
C7_TimeoutStops ==
    (pc = "done" /\ timedOut)
        => /\ result.status = "timeout"
           /\ Healthy => /\ ~running
                         /\ ws = None
                         /\ conn \in {"none", "closed"}
                         /\ NoPumpAlive

\* C7 witness: the limit expired on a streaming session; both pumps were
\* cancelled and stop() closed and released the connection.
C7_Witness ==
    /\ pc = "done"
    /\ timedOut
    /\ Healthy
    /\ result.status = "timeout"
    /\ up = "cancelled"
    /\ down = "cancelled"
    /\ conn = "closed"
    /\ released = 1

QueueCapacity == MaxQueue - 1

\* C9 (as claimed): the capture queue never holds more than its configured
\* capacity.
C9_QueueBounded == Len(audio_queue) <= QueueCapacity

\* The uplink pump is looping with the running flag set.
UplinkStreaming == running /\ up \in {"waiting", "sending"}

\* audio_queue changes only by a get() of its head or by a put of one chunk
\* behind everything queued.
QueueStep ==
    audio_queue' # audio_queue =>
        \/ audio_queue # <<>> /\ audio_queue' = Tail(audio_queue)
        \/ /\ Len(audio_queue') = Len(audio_queue) + 1
           /\ SubSeq(audio_queue', 1, Len(audio_queue)) = audio_queue

\* C10: no push drops a queued chunk (the newest included), and while the
\* uplink pump keeps streaming the newest queued chunk is eventually taken by
\* the pump for sending.
C10_NewestSurvives ==
    /\ [][QueueStep]_vars
    /\ \A c \in 1..MaxChunks :
          (UplinkStreaming /\ audio_queue # <<>> /\ audio_queue[Len(audio_queue)] = c)
              ~> (audio_data = c \/ ~UplinkStreaming)

\* C10 witness: chunk 3, pushed behind a queued chunk, is being sent while the
\* queue has filled up again behind it.
C10_Witness ==
    /\ UplinkStreaming
    /\ audio_data = 3
    /\ Len(audio_queue) = MaxQueue

\* The payload of the i-th chunk the capture callback pushes.
Pushed(i) == ((i - 1) % MaxChunks) + 1

IsBinary(m) == m.kind = "binary"

\* The binary messages among the observed outbound messages.
BinaryOnWire == SelectSeq(wire, IsBinary)

\* The chunks that were pushed and not yet sent or dropped: the one
\* send_audio holds, then the queued ones.
Pending == (IF audio_data # 0 THEN <<audio_data>> ELSE <<>>) \o audio_queue

\* C11: the i-th binary message on the wire carries the i-th chunk pushed,
\* whole and unchanged, so the binary messages sent are a prefix of the chunks
\* pushed; and the chunks held by send_audio and by the queue are consecutive
\* chunks in capture order, up to the last one pushed.
C11_UplinkFifo ==
    /\ \A i \in DOMAIN BinaryOnWire : BinaryOnWire[i] = AudioMessage(Pushed(i))
    /\ \A i \in 1..(Len(Pending) - 1) : Pending[i + 1] = (Pending[i] % MaxChunks) + 1
    /\ Pending # <<>> => (Pending[Len(Pending)] % MaxChunks) + 1 = nextChunk

\* C11 witness: the first chunks pushed are on the wire in capture order, the
\* next one is being sent and more are queued behind it.
C11_Witness ==
    /\ Len(BinaryOnWire) = MaxWire - 1
    /\ BinaryOnWire[1].data = 1
    /\ BinaryOnWire[2].data = 2
    /\ audio_data = 3
    /\ audio_queue # <<>>

\* The events receive_audio surfaces: an agent utterance, a server-reported
\* error, a diagnostic.
Utterance(text) == Entry("info", "[Agent]: ", text)
ServerError(text) == Entry("error", "Server error: ", text)

\* The message recv() returned in this step.
Delivered == received'[Len(received')]

\* m is a text message that decodes to a JSON object.
IsObject(m) == m.kind = "text" /\ JsonLoads(m.data).t = "dict"

HasField(m, key) == IsObject(m) /\ key \in DOMAIN JsonLoads(m.data).v

Field(m, key) == JsonLoads(m.data).v[key]

\* The step leaves the downlink pump in its loop and the session Streaming.
StaysStreaming == down' = "receiving" /\ Streaming'

\* A received object with a text field is surfaced as exactly one utterance
\* with that text; one with an error field and no text field as exactly one
\* server error; either way the pump and the session go on.
ControlStep ==
    (received' # received /\ Streaming) =>
        /\ HasField(Delivered, TextKey) =>
              /\ log' = Append(log, Utterance(Field(Delivered, TextKey)))
              /\ StaysStreaming
        /\ (HasField(Delivered, ErrorKey) /\ ~HasField(Delivered, TextKey)) =>
              /\ log' = Append(log, ServerError(Field(Delivered, ErrorKey)))
              /\ StaysStreaming

\* C12: every step that delivers to a Streaming session a text message
\* decoding to an object with a text field logs exactly one agent utterance
\* carrying the text, every step that delivers an object with an error field
\* and no text field logs exactly one server error, and after the step the
\* downlink pump is still in its loop and the session is still Streaming.
C12_ControlEvents == [][ControlStep]_vars

\* C12 witness: a server error and then an utterance were delivered and
\* logged, and the session is still Streaming with the pump in its loop.
C12_Witness ==
    /\ received = << [kind |-> "text", data |-> "{\"error\": \"oops\"}"],
                     [kind |-> "text", data |-> "{\"text\": \"hello\"}"] >>
    /\ log = << ServerError("oops"), Utterance("hello") >>
    /\ down = "receiving"
    /\ Streaming

\* m is a text message that json.loads rejects.
IsUnparsed(m) == m.kind = "text" /\ JsonLoads(m.data).t = "JSONDecodeError"

\* A received text that is no JSON is surfaced as exactly one event that
\* carries the raw string and is no agent utterance, and the pump and the
\* session go on.
UnparsedStep ==
    (received' # received /\ Streaming /\ IsUnparsed(Delivered)) =>
        /\ \E e \in {Entry(level, prefix, Delivered.data) :
                        level \in {"info", "error", "debug"},
                        prefix \in {"[Agent]: ", "Server error: ", "Server message: "}} :
              /\ log' = Append(log, e)
              /\ e # Utterance(Delivered.data)
        /\ StaysStreaming

\* C13 (as claimed): every step that delivers to a Streaming session a text
\* message that is not valid JSON logs exactly one event carrying the raw
\* string, distinct from an agent utterance, and leaves the session Streaming.
C13_UnparsedDiagnostic == [][UnparsedStep]_vars

\* A received text message never ends the pump.
TextStep ==
    (received' # received /\ Streaming /\ Delivered.kind = "text") =>
        /\ Len(log') = Len(log) + 1
        /\ down' = "receiving"

\* C14 (as claimed): every step that delivers to a Streaming session a text
\* message, whatever it decodes to, logs one event and leaves the downlink
\* pump in its loop.
C14_TextNeverFatal == [][TextStep]_vars

\* One write of the bytes of message m to the playback stream.
PlayOf(m) == Entry("play", "", m.data)

\* The log line left by a write that the playback stream refused.
WriteFailed == Entry("error", "Error receiving audio: ", "PortAudioError")

\* C15: the k-th thing receive_audio did is about the k-th message received:
\* a binary message was written to the playback stream once with its bytes
\* unchanged (or the write raised, which ended the pump at that message), and
\* a text message caused no write.  (Only the last message can be without a
\* log line: one that broke the pump after stop() had cleared the flag.)  So
\* the playback writes are the binary messages received, in receipt order,
\* interleaved with the control events in arrival order.
C15_PlaybackOrder ==
    /\ \A i \in DOMAIN received :
          IF i > Len(log)
          THEN i = Len(received) /\ down = "broke" /\ ~running
          ELSE IF IsBinary(received[i])
          THEN \/ log[i] = PlayOf(received[i])
               \/ (i = Len(received) /\ log[i] = WriteFailed /\ down = "broke")
          ELSE log[i].level # "play"
    /\ \A i \in DOMAIN log : i > Len(received) => log[i].level # "play"

\* C15 witness: two different audio frames were received and played in
\* receipt order, and the pump is waiting for the next message.
C15_Witness ==
    /\ received = << [kind |-> "binary", data |-> <<3>>],
                     [kind |-> "binary", data |-> <<1, 2>>] >>
    /\ log = << Entry("play", "", <<3>>), Entry("play", "", <<1, 2>>) >>
    /\ down = "receiving"

\* C16 (as claimed): when clawdbot_connect has produced the result, neither
\* pump task is still alive.
C16_NoOrphan == pc = "done" => NoPumpAlive

\* A step of send_audio, of its capture callback, or of receive_audio.
PumpStep ==
    \/ SendAudioStart
    \/ SendAudioDeviceFail
    \/ AudioCallback
    \/ SendAudioGet
    \/ SendAudioSent
    \/ SendAudioFailed
    \/ SendAudioTimeout
    \/ ReceiveAudioStart
    \/ ReceiveAudioDeviceFail
    \/ Receive(SessionMessages)
    \/ ReceiveFailed
    \/ ReceiveTimeout

\* A step in which a pump task's position changes, other than by being
\* cancelled.
PumpMoves ==
    \/ up' # up /\ up # "idle" /\ up' # "cancelled"
    \/ down' # down /\ down # "idle" /\ down' # "cancelled"

\* The pumps leave the flag, the handle and the connection alone; the flag is
\* cleared and close() is called only by the first half of stop(), the handle
\* is released only by its second half, and the handle is set only by
\* connect().
ShutdownStep ==
    /\ (PumpStep \/ PumpMoves) => UNCHANGED connVars
    /\ ( \/ running /\ ~running'
         \/ closeCalls' # closeCalls
         \/ conn' = "closing" /\ conn # "closing" ) => StopEnter
    /\ (ws # None /\ ws' = None) => StopLeave
    /\ (ws' # ws /\ ws' # None) => pc = "connecting"

\* C17: no step of a pump changes the running flag, the connection handle or
\* the connection; every step that clears the flag or closes the connection is
\* the body of stop() up to close(), and every step that releases the handle
\* is the rest of stop(), whichever trigger called it.
C17_SingleShutdownPath == [][ShutdownStep]_vars

\* C17 witness: a signal started the shutdown while both pumps were looping;
\* they left their loops on the flag, and stop() has closed and released the
\* connection once.
C17_Witness ==
    /\ stopCalls = 1
    /\ up = "exited"
    /\ down = "exited"
    /\ closeCalls = 1
    /\ released = 1
    /\ conn = "closed"
    /\ ~running

C19_ConfigContents ==
    \A i \in ConfigsOnWire :
        /\ wire[i].voice_prompt = Upper(voice_arg) \o <<".","p","t">>
        /\ ("text_prompt" \in DOMAIN wire[i]) <=> (text_prompt # "")
        /\ text_prompt # "" => wire[i].text_prompt = text_prompt
        /\ DOMAIN wire[i] \subseteq {"kind", "voice_prompt", "text_prompt"}

\* C19 witness: the voice Bob, which is no preset, was sent as BOB.pt in a
\* configuration message without a text_prompt key.
C19_Witness ==
    /\ voice_arg = <<"B","o","b">>
    /\ Upper(voice_arg) \notin VOICE_PRESETS
    /\ text_prompt = ""
    /\ wire # <<>>
    /\ wire[1] = [kind |-> "text", voice_prompt |-> <<"B","O","B",".","p","t">>]

\* The call at position i + 1 was given what the call at position i returned.
Chained(i) == calls[i].ret # <<>> /\ calls[i + 1].arg = calls[i].ret[1]

\* C20: every ElevenLabs name of the table maps to a preset and every preset
\* to an ElevenLabs name; a name mapped to its preset and back is the name, a
\* preset mapped to its name and back is the preset; rachel and NATF2, adam
\* and NATM1 map to each other; and the table and its reverse name each of
\* the 18 presets exactly once.
C20_VoiceRoundTrip ==
    /\ \A i \in DOMAIN calls :
          /\ (calls[i].fn = "get_personaplex_voice" /\ calls[i].arg \in ElevenLabsNames)
                => (calls[i].ret # <<>> /\ calls[i].ret[1] \in PRESET_INFO)
          /\ (calls[i].fn = "get_elevenlabs_voice" /\ calls[i].arg \in PRESET_INFO)
                => (calls[i].ret # <<>> /\ calls[i].ret[1] \in ElevenLabsNames)
          /\ calls[i] # Call("get_personaplex_voice", <<"r","a","c","h","e","l">>, <<>>)
          /\ (calls[i].fn = "get_personaplex_voice" /\ calls[i].arg = <<"r","a","c","h","e","l">>)
                => calls[i].ret = <<<<"N","A","T","F","2">>>>
          /\ (calls[i].fn = "get_elevenlabs_voice" /\ calls[i].arg = <<"N","A","T","M","1">>)
                => calls[i].ret = <<<<"a","d","a","m">>>>
    /\ \A i \in 1..(Len(calls) - 1) :
          /\ ( /\ calls[i].fn = "get_personaplex_voice"
               /\ calls[i].arg \in ElevenLabsNames
               /\ calls[i + 1].fn = "get_elevenlabs_voice"
               /\ Chained(i) ) => calls[i + 1].ret = <<calls[i].arg>>
          /\ ( /\ calls[i].fn = "get_elevenlabs_voice"
               /\ calls[i].arg \in PRESET_INFO
               /\ calls[i + 1].fn = "get_personaplex_voice"
               /\ Chained(i) ) => calls[i + 1].ret = <<calls[i].arg>>
    /\ Cardinality(PRESET_INFO) = Cardinality(ElevenLabsNames)
    /\ Cardinality(PRESET_INFO) = Len(pp_to_el)
    /\ Cardinality(PRESET_INFO) = 18

\* C20 witness: rachel was mapped to NATF2 and NATF2 back to rachel.
C20_Witness ==
    calls = << Call("get_personaplex_voice", <<"r","a","c","h","e","l">>, <<<<"N","A","T","F","2">>>>),
               Call("get_elevenlabs_voice", <<"N","A","T","F","2">>, <<<<"r","a","c","h","e","l">>>>) >>

\* C21: once stop() has cleared the running flag and called close() on the
\* connection, a session whose pumps were launched leads to both pumps having
\* left their loops, whether chunks and inbound messages keep arriving or not.
C21_CancellationCompletes ==
    (~running /\ closeCalls > 0 /\ up # "idle" /\ down # "idle") ~> PumpsExited

\* C21 witness: a stop was asked for from outside, the session is Closed, and
\* both pumps left their loops at the test of the running flag, the uplink one
\* with a chunk taken from the queue after capture began.
C21_Witness ==
    /\ stopCalls > 0
    /\ Closed
    /\ up = "exited"
    /\ down = "exited"
    /\ nextChunk > 1
    /\ audio_in_stream = "closed"
    /\ audio_out_stream = "closed"

\* The place of a state on the spec's line Idle -> Connecting -> Streaming ->
\* Stopping -> Closed: Closed once stop() released the handle, Stopping once it
\* called close(), Streaming while the running flag is up, Connecting inside
\* websockets.connect(), Idle before; a session that ended without ever
\* holding a connection counts as Closed.
Phase ==
    IF released > 0 THEN 4
    ELSE IF closeCalls > 0 THEN 3
    ELSE IF running THEN 2
    ELSE IF pc = "connecting" THEN 1
    ELSE IF pc = "start" THEN 0
    ELSE 4

\* A pump task is created in this step.
PumpLaunched == (up = "idle" /\ up' # "idle") \/ (down = "idle" /\ down' # "idle")

\* C22: no step moves the session backwards on the line Idle -> Connecting ->
\* Streaming -> Stopping -> Closed; the running flag rises only out of
\* Connecting (hence at most once, and never after stop() cleared it); the
\* connection handle is set only out of Connecting, never after it was
\* released; and a step that launches a pump is taken in Streaming, before
\* any close() and before the duration limit expired.
C22_Monotonic ==
    [][ /\ Phase' >= Phase
        /\ (running' /\ ~running) => Phase = 1
        /\ (ws' # None /\ ws = None) => (Phase = 1 /\ released = 0)
        /\ PumpLaunched => (Phase = 2 /\ ~timedOut)
      ]_vars

\* C22 witness: a session that went through every phase: one connection
\* attempt, audio was sent while streaming, a stop from outside closed the
\* connection, the handle was released and the result returned.
C22_Witness ==
    /\ pc = "done"
    /\ connectAttempts = 1
    /\ stopCalls > 0
    /\ closeCalls = 1
    /\ released = 1
    /\ Closed
    /\ \E i \in DOMAIN wire : wire[i].kind = "binary"

\* C23 (as claimed): in every state where the running flag is true the
\* configuration message has been sent, and a session whose configuration
\* send failed is not running.
C23_RunningAfterConfig ==
    /\ running => ConfigsOnWire # {}
    /\ (pc = "done" /\ ConfigsOnWire = {}) => ~running

\* The uplink pump hands a chunk to self._ws.send() in this step.
SendStarted == up' = "sending" /\ up # "sending"

\* The uplink pump takes a chunk from the queue in this step.
ChunkPopped == Len(audio_queue') < Len(audio_queue)

\* An audio frame is written to the transport in this step.
FrameWritten == Len(wire') > Len(wire) /\ wire'[Len(wire')].kind = "binary"

\* C24: a step that starts the send of an audio frame is taken with the
\* running flag true, and so is a step that writes one to the transport; a
\* step that pops a chunk after stop() cleared the flag starts no send, writes
\* nothing to the transport and keeps no chunk.
C24_SendOnlyStreaming ==
    [][ /\ SendStarted => (running /\ ws # None)
        /\ FrameWritten => running
        /\ (ChunkPopped /\ ~running) =>
              (up' # "sending" /\ wire' = wire /\ audio_data' = 0)
      ]_vars

\* C24 witness: one chunk was captured and taken from the queue, the pump left
\* by the test of the running flag, and no audio frame was ever written: the
\* chunk was popped after stop() and discarded.
C24_Witness ==
    /\ ~running
    /\ closeCalls > 0
    /\ nextChunk = 2
    /\ audio_queue = <<>>
    /\ audio_data = 0
    /\ up = "exited"
    /\ \A i \in DOMAIN wire : wire[i].kind # "binary"

\* The downlink pump calls self._ws.recv() in this step: it enters its loop,
\* or comes back to recv() after handling a message.
RecvInvoked == down' = "receiving" /\ (down # "receiving" \/ received' # received)

\* C25: whenever the running flag is true the connection handle is set; a
\* step that resets the handle to None is taken with the flag already false;
\* and every step in which a pump invokes send or recv finds the flag true and
\* the handle set.
C25_NoUseOfNullHandle ==
    /\ [](running => ws # None)
    /\ [][ /\ (ws # None /\ ws' = None) => (~running /\ ~running')
           /\ (RecvInvoked \/ SendStarted) => (running /\ ws # None)
         ]_vars

\* C25 witness: stop() has reset the handle to None while both pumps are still
\* in their loops, the downlink one suspended in recv() and the uplink one in
\* get().
C25_Witness ==
    /\ ws = None
    /\ released = 1
    /\ ~running
    /\ down = "receiving"
    /\ up = "waiting"

\* A stop() is called in this step before the connection is established.
EarlyStop == stopCalls' # stopCalls /\ pc \in {"start", "connecting"}

\* C26: a stop() called while the session is Idle or Connecting changes
\* nothing of the session (flag, handle, connection, run(), pumps); before the
\* connection is established the flag is false and no close() is pending,
\* however many stops were asked for; and the session can still go on: run()
\* can be started, websockets.connect() can return and set the flag, and the
\* configuration message can be sent on the open connection.
C26_EarlyStopForgotten ==
    /\ [][ EarlyStop => UNCHANGED <<cfgVars, connVars, mainVars, stopTask, upVars,
                                    downVars, wire>> ]_vars
    /\ [](pc \in {"start", "connecting"} =>
              (~running /\ ws = None /\ closeCalls = 0 /\ stopTask = "idle"))
    /\ [](pc = "start" => ENABLED BeginConnect)
    /\ [](pc = "connecting" => ENABLED ConnectOk)
    /\ []((pc = "configuring" /\ conn = "open") => ENABLED ConfigSent)

\* C26 witness: stop() was called MaxStopCalls times before the connection was
\* established (no close() was ever called), and the session is Streaming
\* with the configuration message sent and both pumps in their loops.
C26_Witness ==
    /\ stopCalls = MaxStopCalls
    /\ closeCalls = 0
    /\ Streaming
    /\ conn = "open"
    /\ ConfigsOnWire = {1}
    /\ up = "waiting"
    /\ down = "receiving"

\* m is a text message decoding to an object with both a text and an error
\* field.
HasBoth(m) == HasField(m, TextKey) /\ HasField(m, ErrorKey)

\* The step in which such a message is delivered appends exactly one event,
\* the utterance carrying its text field, and does not break the pump: in a
\* Streaming session the pump is back in recv().
BothStep ==
    (received' # received /\ HasBoth(Delivered)) =>
        /\ log' = Append(log, Utterance(Field(Delivered, TextKey)))
        /\ \A i \in DOMAIN log' : i > Len(log) => log'[i].level # "error"
        /\ down' # "broke"
        /\ Streaming => StaysStreaming

\* C27: every step that delivers a text message decoding to an object with
\* both a text field and an error field logs exactly one event, the agent
\* utterance with the text; no server error is logged for it, and the
\* downlink pump goes on with its loop.
C27_TextWinsOverError == [][BothStep]_vars

\* C27 witness: the object with both fields was delivered to a Streaming
\* session, the log holds the one utterance "hi" and no error, and the pump is
\* back in recv().
C27_Witness ==
    /\ received = << [kind |-> "text", data |-> "{\"text\": \"hi\", \"error\": \"oops\"}"] >>
    /\ log = << Utterance("hi") >>
    /\ down = "receiving"
    /\ Streaming

\* The duration limit expires, wherever run() is suspended.
Expire == TimeoutConnecting \/ TimeoutConfiguring \/ TimeoutGathering \/ TimeoutClosing

\* run() is suspended in one of its awaits.
RunAwaits == pc \in {"connecting", "configuring", "gathering", "run_closing"}

FinalStatuses == {"completed", "disconnected", "timeout", "error"}

\* C29: clawdbot_connect returns at most once, and it has returned exactly
\* when the session is done; the returned status is completed, disconnected,
\* timeout or error (never the initial connected); completed is returned only
\* with a duration limit set that did not expire, after run() went through its
\* gather(); error is returned only for an exception that escaped run() (from
\* connect(), before any handler was installed), with its text, and the other
\* statuses carry no error.
C29_OneResult ==
    /\ returned <= 1
    /\ pc = "done" <=> returned = 1
    /\ returned = 1 =>
          /\ result.status \in FinalStatuses
          /\ result.status = "completed" =>
                (DurationSet(duration_seconds) /\ ~timedOut /\ handlers)
          /\ result.status = "disconnected" =>
                (~DurationSet(duration_seconds) /\ handlers)
          /\ result.status = "timeout" => timedOut
          /\ result.status = "error" <=> ~handlers /\ ~timedOut
          /\ result.status = "error" <=> result.error # None

\* C29 witness: a session with a duration limit whose run() ended before the
\* limit (the transport was lost and both pumps broke) returned completed,
\* once.
C29_Witness ==
    /\ pc = "done"
    /\ returned = 1
    /\ result = [status |-> "completed", error |-> None]
    /\ DurationSet(duration_seconds)
    /\ ~timedOut
    /\ up = "broke"
    /\ down = "broke"

============================================================================
